---- MODULE Spec2Model ----
(***************************************************************************)
(* Model of cnv_script_karim (src/cnv.py): the copy-number pipeline that   *)
(* turns per-sample amplicon read counts into ratios, classifications,     *)
(* gene means and report files.                                            *)
(*                                                                         *)
(* Numbers.  Ratios and thresholds are decimals with three places; the     *)
(* model holds them as integers counted in thousandths (0.5 is 500, 1.76   *)
(* is 1760).  A baseline value is held in thousandths as well.  The gene   *)
(* mean, which the code does not round, is held as the exact fraction      *)
(* sum / n, and NaN (the mean of an empty list) as n = 0.                  *)
(* Within the input sets below no quotient lies half-way between two       *)
(* thousandths, and every comparison of a float with a threshold agrees    *)
(* with the comparison of the exact values.                                *)
(* Files.  The two exports of the ordered panel (one read for the coverage *)
(* matrix, one for the report loops) list the same amplicons in the same   *)
(* order; the baseline, the gene list and each sample file are files of    *)
(* their own and may disagree with the panel.  A workbook reaches the disk *)
(* when it is closed; a text file opened for appending keeps what was      *)
(* written to it when an exception leaves the with block.                  *)
(* Text.  Cell texts (amplicon ids, gene names) are sequences of           *)
(* one-character strings, so that str.replace and str.find are modelled by *)
(* what they do.                                                           *)
(* Specifications.  Spec is one command-line run in an empty working       *)
(* directory.  SpecMarker and SpecKeys are such runs over a panel with an  *)
(* identity marker and over a panel whose ids hold ".0".  SpecRerun lets   *)
(* the program be started again in the same working directory.  SpecGui    *)
(* is the main window (MainWindow); its worker process is known to it by   *)
(* the state of its QProcess and by its exit status only.                  *)
(***************************************************************************)
EXTENDS Integers, Sequences, FiniteSets, TLC

\* ------------------------------------------------------------------ bounds
\* The largest number of sample directories in the input archive.
MaxSamples == 2
\* The largest number of runs started in one working directory.
MaxRuns == 2
\* The largest number of calls of _process.start() in one window.
MaxStarts == 5

\* ------------------------------------------------------------- cell texts
A1 == <<"A", "1">>
A2 == <<"A", "2">>
G1 == <<"G", "1">>
G3 == <<"G", "3">>
G12 == <<"G", "1", "2">>
G1_1 == <<"G", "1", "_", "1">>
G1_2 == <<"G", "1", "_", "2">>
G12_1 == <<"G", "1", "2", "_", "1">>
G1dot0 == <<"G", "1", ".", "0">>
G1dot05 == <<"G", "1", ".", "0", "5">>
TH01 == <<"T", "H", "0", "1">>
TH01_1 == <<"T", "H", "0", "1", "_", "1">>

\* The reference panels the model draws from: rows (chromosome, amplicon id,
\* gene) in file order.  PanelWorked is the panel of the worked scenario.
PanelWorked == << [chr |-> "1", id |-> A1, gene |-> G1],
                  [chr |-> "1", id |-> A2, gene |-> G1] >>
PanelSame == << [chr |-> "1", id |-> G1_1, gene |-> G1],
                [chr |-> "1", id |-> G1_2, gene |-> G1] >>
PanelPrefix == << [chr |-> "1", id |-> G1_1, gene |-> G1],
                  [chr |-> "2", id |-> G12_1, gene |-> G12] >>
Panels == {PanelWorked, PanelSame, PanelPrefix}
\* A panel whose ids hold ".0": one at its end, one inside.
PanelDots == << [chr |-> "1", id |-> G1dot0, gene |-> G1],
                [chr |-> "1", id |-> G1dot05, gene |-> G1] >>
\* A panel with an identity marker (TH01 is in listeGeneNonInterets).
PanelMarker == << [chr |-> "11", id |-> TH01_1, gene |-> TH01],
                  [chr |-> "1", id |-> G1_1, gene |-> G1] >>

\* Read counts a sample file may hold for an amplicon.
CountValues == {10, 30}
\* The counts of the one-defect files: no reads at all, and a negative count.
CountDefects == {0, -10}

\* Baseline values the control file may hold for an amplicon (thousandths).
BaselineValues == {1000, 2000}
BaselineDefects == {0, -1000}

\* The files over the keys the model draws from: every file that gives each
\* key one of the values, and the files with one defect: one key's row
\* missing, or one key holding the value `odd`, the other keys holding `plain`.
Files(keys, values, plain, odd) ==
    [keys -> values]
    \cup { [k \in keys \ {a} |-> plain] : a \in keys }
    \cup { [k \in keys |-> IF k = a THEN o ELSE plain] : a \in keys, o \in odd }

\* A workbook that is not on disk.
Absent == [exists |-> FALSE]

\* (deletion_threshold, duplication_threshold) pairs given on the command
\* line, in thousandths: the defaults, one with the duplication threshold on
\* a reachable ratio, and one that is not ordered.
ThresholdPairs == { <<500, 1760>>, <<500, 1500>>, <<1760, 500>> }

\* The identity-vigilance genes, left out of the gene anomaly reports.
listeGeneNonInterets ==
    { <<"P", "E", "N", "T", "A">>,
      <<"2", "2", "4", "8", "3", "0", "3", "7", "8">>,
      <<"2", "2", "4", "8", "6", "9", "3", "8", "0">>,
      <<"2", "2", "4", "8", "6", "2", "4", "8", "8">>,
      <<"2", "2", "4", "8", "7", "9", "6", "4", "4">>,
      <<"2", "2", "4", "8", "2", "9", "5", "8", "6">>,
      <<"2", "2", "4", "8", "5", "1", "1", "1", "2">>,
      TH01,
      <<"2", "2", "4", "8", "2", "5", "6", "0", "5">>,
      <<"2", "2", "4", "8", "2", "4", "5", "3", "1">>,
      <<"A", "M", "E", "X">>,
      <<"A", "M", "E", "Y">>,
      <<"D", "1", "M", "S", "2", "0", "1", "7", "5", "4", "4", "1", "1">>,
      <<"M", "O", "N", "2", "7">>,
      <<"B", "A", "T", "2", "6">>,
      <<"D", "2", "M", "S", "6", "2", "0", "6", "3", "0", "9", "4">>,
      <<"N", "R", "2", "4">>,
      <<"B", "A", "T", "2", "5">>,
      <<"D", "5", "M", "S", "1", "7", "2", "4", "2", "1", "7", "6", "1">>,
      <<"D", "6", "M", "S", "1", "4", "2", "6", "9", "1", "9", "5", "1">>,
      <<"D", "7", "M", "S", "1", "7", "8", "7", "5", "2", "0">>,
      <<"D", "7", "M", "S", "7", "4", "6", "0", "8", "7", "4", "1">>,
      <<"D", "1", "1", "M", "S", "1", "0", "6", "6", "9", "5", "5", "1", "5">>,
      <<"D", "1", "3", "M", "S", "3", "1", "7", "2", "2", "6", "2", "1">>,
      <<"N", "R", "2", "1">>,
      <<"D", "1", "5", "M", "S", "4", "5", "8", "9", "7", "7", "7", "2">>,
      <<"D", "1", "6", "M", "S", "1", "8", "8", "8", "2", "6", "6", "0">>,
      <<"D", "1", "7", "M", "S", "1", "9", "3", "1", "4", "9", "1", "8">> }

\* ------------------------------------------------------------ pure helpers
RECURSIVE replaceDotZero(_)
\* str.replace(".0", ""): every non-overlapping ".0", left to right, is removed.
replaceDotZero(s) ==
    IF Len(s) < 2 THEN s
    ELSE IF s[1] = "." /\ s[2] = "0" THEN replaceDotZero(SubSeq(s, 3, Len(s)))
    ELSE <<s[1]>> \o replaceDotZero(Tail(s))

\* str.find(sub) != -1
found(s, sub) ==
    \E i \in 0..(Len(s) - Len(sub)) : SubSeq(s, i + 1, i + Len(sub)) = sub

Range(f) == { f[i] : i \in DOMAIN f }

\* round(num / den, 0) as Python rounds a float that is exactly num / den:
\* to the nearest integer, a tie to the even one.  den # 0.
roundHalfEven(num, den) ==
    LET n == IF den < 0 THEN -num ELSE num
        d == IF den < 0 THEN -den ELSE den
        q == n \div d
        r == n - q * d
    IN  IF 2 * r < d THEN q
        ELSE IF 2 * r > d THEN q + 1
        ELSE IF q % 2 = 0 THEN q ELSE q + 1

\* ------------------------------------------------------------------- state
VARIABLES
    pc,                     \* the block of cnv_script_karim that runs next
    error,                  \* the exception that ended the run, or "none"
    deletion_threshold,     \* argument, thousandths
    duplication_threshold,  \* argument, thousandths
    nSamples,               \* len(listeRepertoirePatients)
    numpatient,             \* the sample the current loop is at (1-based)
    coverage,               \* the sample files read so far: id -> count cell
    panelFile,              \* the reference panel rows of this run
    listOrdonneeAMP,        \* ordered amplicon ids (normalised)
    dictAmpliGene,          \* amplicon id -> gene
    worksheetEntreCNV,      \* coverage matrix being written (in memory)
    filePatientALL,         \* coverage matrix workbook on disk, or Absent
    dict_moy_Norm_TemoinsPorphy, \* baseline: amplicon id -> value
    listeOrdonneeAmpli,     \* ordered amplicon ids used by the report loops
    dictChromosome,         \* amplicon id -> chromosome
    worksheet,              \* ratio sheet being written (in memory)
    ratioWorkbook,          \* Resultat_Ratio workbook on disk, or Absent
    ampAnomalies,           \* resultats_AMP anomaly text file (lines)
    ampPlots,               \* resultats_AMP plots on disk
    listeNomGene,           \* the gene set, in its iteration order
    worksheet_rg,           \* gene sheet being written (in memory)
    geneWorkbook,           \* Resultat_MeanRatioGene workbook on disk, or Absent
    geneAnomalies,          \* resultats_Gene anomaly text file (lines)
    genePlots,              \* resultats_Gene plots on disk
    exitStatus,             \* exit status of the process, -1 while it runs
    runs,                   \* runs started in this working directory so far
    rawDataXls,             \* rawData_extractCNV holds .xls copies of a run
    refdir,                 \* MainWindow._refdir is set
    workdir,                \* MainWindow._workdir is set
    last_zip,               \* MainWindow._last_zip is set
    arguments,              \* what the arguments of _process were built from
    processState,           \* MainWindow._process.state()
    starts,                 \* calls of _process.start() so far
    connections,            \* connections of _process.finished to on_worker_finished
    slotCalls,              \* calls of on_worker_finished at the last completion
    messageBox,             \* the title of the last message box shown
    runButtonHidden,        \* _run_button is hidden (the progress bar shows)
    windowOpen              \* the main window exists and is not closed

vars == << pc, error, deletion_threshold, duplication_threshold, nSamples,
           numpatient, coverage, panelFile, listOrdonneeAMP, dictAmpliGene,
           worksheetEntreCNV, filePatientALL, dict_moy_Norm_TemoinsPorphy,
           listeOrdonneeAmpli, dictChromosome, worksheet, ratioWorkbook,
           ampAnomalies, ampPlots, listeNomGene, worksheet_rg, geneWorkbook,
           geneAnomalies, genePlots, exitStatus, runs, rawDataXls, refdir,
           workdir, last_zip, arguments, processState, starts, connections,
           slotCalls, messageBox, runButtonHidden, windowOpen >>

inputVars == << deletion_threshold, duplication_threshold >>
matrixVars == << coverage, panelFile, listOrdonneeAMP, dictAmpliGene,
                 worksheetEntreCNV, filePatientALL >>
refVars == << dict_moy_Norm_TemoinsPorphy, listeOrdonneeAmpli, dictChromosome >>
ampVars == << worksheet, ratioWorkbook, ampAnomalies, ampPlots >>
geneVars == << listeNomGene, worksheet_rg, geneWorkbook, geneAnomalies, genePlots >>
guiVars == << refdir, workdir, last_zip, arguments, processState, starts,
              connections, slotCalls, messageBox, runButtonHidden, windowOpen >>
\* What no block of a run changes: the run counter and the window.
envVars == << runs, guiVars >>
\* The variables of the command-line run.
runVars == << pc, error, inputVars, nSamples, numpatient, matrixVars, refVars,
              ampVars, geneVars, exitStatus, runs, rawDataXls >>

EmptyFun == [x \in {} |-> 0]

\* No arguments have been given to _process.
NoArguments == [refdir |-> FALSE, workdir |-> FALSE, input_zip |-> FALSE,
                run_name |-> FALSE]

\* The program was started with arguments: there is no window.
NoWindow ==
    /\ refdir = FALSE
    /\ workdir = FALSE
    /\ last_zip = FALSE
    /\ arguments = NoArguments
    /\ processState = "NotRunning"
    /\ starts = 0
    /\ connections = 0
    /\ slotCalls = 0
    /\ messageBox = "none"
    /\ runButtonHidden = FALSE
    /\ windowOpen = FALSE

\* The state when cnv_script_karim is entered with an empty working
\* directory, a reference directory that holds one of `panels` and one of
\* the threshold pairs `thresholds` on the command line.
EnterScript(panels, thresholds) ==
    /\ pc = "start"
    /\ error = "none"
    /\ exitStatus = -1
    /\ runs = 1
    /\ rawDataXls = FALSE
    /\ \E t \in thresholds :
          /\ deletion_threshold = t[1]
          /\ duplication_threshold = t[2]
    /\ nSamples = 0
    /\ numpatient = 1
    /\ coverage = << >>
    /\ panelFile \in panels
    /\ listOrdonneeAMP = << >>
    /\ dictAmpliGene = EmptyFun
    /\ worksheetEntreCNV = << >>
    /\ filePatientALL = Absent
    /\ dict_moy_Norm_TemoinsPorphy = EmptyFun
    /\ listeOrdonneeAmpli = << >>
    /\ dictChromosome = EmptyFun
    /\ worksheet = << >>
    /\ ratioWorkbook = Absent
    /\ ampAnomalies = << >>
    /\ ampPlots = << >>
    /\ listeNomGene = << >>
    /\ worksheet_rg = << >>
    /\ geneWorkbook = Absent
    /\ geneAnomalies = << >>
    /\ genePlots = << >>

Init ==
    /\ EnterScript(Panels, ThresholdPairs)
    /\ NoWindow

\* The exception is swallowed: the run ends with status 0.
RaiseExitZero(e) ==
    /\ pc' = "failed"
    /\ error' = e
    /\ exitStatus' = 0

\* An uncaught exception: the run ends and the interpreter exits with
\* status 1; workbooks not yet closed are lost.
Raise(e) ==
    /\ pc' = "failed"
    /\ error' = e
    /\ exitStatus' = 1

\* Reference files are checked, the archive is extracted into
\* rawData_extractCNV, the entries of that directory are listed and the
\* coverage file of each entry is copied beside it.  An entry that is a
\* .xls copy left by an earlier run has no coverage file: IndexError.
Extract ==
    /\ pc = "start"
    /\ \E refdirComplete \in BOOLEAN, n \in 0..MaxSamples :
          IF ~refdirComplete
          THEN /\ Raise("FileNotFoundError")
               /\ UNCHANGED << nSamples, rawDataXls >>
          ELSE IF rawDataXls
          THEN /\ Raise("IndexError")
               /\ UNCHANGED << nSamples, rawDataXls >>
          ELSE /\ nSamples' = n
               /\ rawDataXls' = (n > 0)
               /\ pc' = "panel"
               /\ UNCHANGED << error, exitStatus >>
    /\ UNCHANGED << inputVars, envVars, numpatient, matrixVars, refVars,
                    ampVars,
                    geneVars >>

\* The ordered panel is read: ids normalised, id -> gene built.
LoadPanel ==
    /\ pc = "panel"
    /\ LET p == panelFile IN
          /\ listOrdonneeAMP' = [k \in DOMAIN p |-> replaceDotZero(p[k].id)]
          /\ dictAmpliGene' =
                [a \in { replaceDotZero(p[k].id) : k \in DOMAIN p } |->
                    LET last == CHOOSE k \in DOMAIN p :
                                  /\ replaceDotZero(p[k].id) = a
                                  /\ \A j \in DOMAIN p :
                                        replaceDotZero(p[j].id) = a => j <= k
                    IN  p[last].gene]
    /\ pc' = "matrix"
    /\ UNCHANGED << error, exitStatus, inputVars, envVars, rawDataXls,
                    nSamples, numpatient, coverage, panelFile,
                    worksheetEntreCNV, filePatientALL, refVars, ampVars, geneVars >>

\* dictPatientEnCours: the rows of one sample file, amplicon id -> read count.
dictPatientEnCours(file) == [a \in DOMAIN file |-> file[a]]

\* The ids a sample file may be keyed by: the panel's ids as the panel file
\* holds them, or as they read once normalised.
sampleKeys ==
    { { panelFile[k].id : k \in DOMAIN panelFile }, Range(listOrdonneeAMP) }

\* One sample file is read and its column of the coverage matrix is written,
\* one row per panel amplicon, looked up by the normalised id; an id the file
\* lacks raises KeyError.
BuildMatrix ==
    /\ pc = "matrix"
    /\ numpatient <= nSamples
    /\ \E keys \in sampleKeys : \E file \in Files(keys, CountValues, 10, CountDefects) :
          LET dict == dictPatientEnCours(file)
          IN  /\ coverage' = Append(coverage, file)
              /\ IF \E k \in DOMAIN listOrdonneeAMP : listOrdonneeAMP[k] \notin DOMAIN dict
                 THEN /\ Raise("KeyError")
                      /\ UNCHANGED << worksheetEntreCNV, numpatient >>
                 ELSE /\ worksheetEntreCNV' = Append(worksheetEntreCNV,
                            [k \in DOMAIN listOrdonneeAMP |-> dict[listOrdonneeAMP[k]]])
                      /\ numpatient' = numpatient + 1
                      /\ UNCHANGED << pc, error, exitStatus >>
    /\ UNCHANGED << inputVars, envVars, rawDataXls, nSamples, panelFile,
                    listOrdonneeAMP, dictAmpliGene,
                    filePatientALL, refVars, ampVars, geneVars >>

\* fichierEntreCNV.close(): the matrix is saved with its gene and region_id
\* columns and one column per sample.
CloseMatrix ==
    /\ pc = "matrix"
    /\ numpatient > nSamples
    /\ filePatientALL' =
          [ exists |-> TRUE,
            rows |-> [k \in DOMAIN listOrdonneeAMP |->
                        [gene |-> dictAmpliGene[listOrdonneeAMP[k]],
                         region_id |-> listOrdonneeAMP[k]]],
            cols |-> worksheetEntreCNV ]
    /\ pc' = "baseline"
    /\ UNCHANGED << error, exitStatus, inputVars, envVars, rawDataXls,
                    nSamples, numpatient, coverage, panelFile,
                    listOrdonneeAMP, dictAmpliGene, worksheetEntreCNV,
                    refVars, ampVars, geneVars >>

\* ------------------------------------------------------------ ratio engine
RECURSIVE somme_colonnePatientX(_)
\* The sum of one sample column of the matrix over all its rows.
somme_colonnePatientX(col) ==
    IF col = << >> THEN 0 ELSE Head(col) + somme_colonnePatientX(Tail(col))

\* The row whose value a dict built row by row keeps for key a: the last one.
lastRow(keys, a) ==
    CHOOSE k \in DOMAIN keys : keys[k] = a /\ \A j \in DOMAIN keys : keys[j] = a => j <= k

\* The keys of the normalised-count dict, one per matrix row.
patientKeys(file) == [k \in DOMAIN file.rows |-> replaceDotZero(file.rows[k].region_id)]

\* The normalisation without self-exclusion: count / column sum.
moyNormSansExclusion(file, numPat) ==
    LET col == file.cols[numPat]
        keys == patientKeys(file)
        somme == somme_colonnePatientX(col)
    IN  [raised |-> somme = 0,
         dict |-> [a \in Range(keys) |->
                     [num |-> col[lastRow(keys, a)], den |-> somme]]]

\* The normalisation that replaces a zero denominator by 1 instead of raising.
moyNormDenominateurBorne(file, numPat) ==
    LET col == file.cols[numPat]
        keys == patientKeys(file)
        somme == somme_colonnePatientX(col)
        den(k) == IF somme - col[k] = 0 THEN 1 ELSE somme - col[k]
    IN  [raised |-> FALSE,
         dict |-> [a \in Range(keys) |->
                     [num |-> col[lastRow(keys, a)], den |-> den(lastRow(keys, a))]]]

\* moy_Norm_dict_patient: amplicon id -> count / (column sum - count), kept
\* as the fraction num / den.  A row with column sum - count = 0 raises
\* ZeroDivisionError (raised), and then no dict is returned.
moy_Norm_dict_patient(file, numPat) ==
    LET col == file.cols[numPat]
        keys == patientKeys(file)
        somme == somme_colonnePatientX(col)
    IN  [raised |-> \E k \in DOMAIN col : somme - col[k] = 0,
         dict |-> [a \in Range(keys) |->
                     [num |-> col[lastRow(keys, a)],
                      den |-> somme - col[lastRow(keys, a)]]]]

\* round(normalised / baseline, 3) in thousandths.
ratioValue(moy, baseline) == roundHalfEven(moy.num * 1000000, moy.den * baseline)

\* The exception of the dictRatio loop, which visits the keys in row order:
\* a key without baseline raises KeyError, a baseline of 0 ZeroDivisionError.
dictRatioError(file, baseline) ==
    LET keys == patientKeys(file)
        bad(k) == keys[k] \notin DOMAIN baseline \/ baseline[keys[k]] = 0
    IN  IF ~ \E k \in DOMAIN keys : bad(k) THEN "none"
        ELSE LET first == CHOOSE k \in DOMAIN keys :
                             bad(k) /\ \A j \in DOMAIN keys : bad(j) => k <= j
             IN  IF keys[first] \notin DOMAIN baseline THEN "KeyError"
                 ELSE "ZeroDivisionError"

\* dictRatio of one sample.
dictRatioOf(file, numPat, baseline) ==
    LET moy == moy_Norm_dict_patient(file, numPat).dict
    IN  [a \in DOMAIN moy |-> ratioValue(moy[a], baseline[a])]

\* The rule with the deletion bound included.
classifyInclusive(x, d, u) ==
    IF x <= d THEN "Deletion"
    ELSE IF x >= u THEN "Duplication"
    ELSE "Normal"

\* The three-way rule of the ratio sheet: red, blue or plain cell.
classify(x, d, u) ==
    IF x < d THEN "Deletion"
    ELSE IF x >= u THEN "Duplication"
    ELSE "Normal"

\* The baseline file and the second export of the ordered panel are read.
LoadBaseline ==
    /\ pc = "baseline"
    /\ \E file \in Files({ panelFile[k].id : k \in DOMAIN panelFile },
                       BaselineValues, 1000, BaselineDefects) :
          dict_moy_Norm_TemoinsPorphy' =
             [a \in { replaceDotZero(x) : x \in DOMAIN file } |->
                 file[CHOOSE x \in DOMAIN file : replaceDotZero(x) = a]]
    /\ listeOrdonneeAmpli' = [k \in DOMAIN panelFile |-> replaceDotZero(panelFile[k].id)]
    /\ dictChromosome' =
          [a \in { replaceDotZero(panelFile[k].id) : k \in DOMAIN panelFile } |->
              panelFile[lastRow([k \in DOMAIN panelFile |-> replaceDotZero(panelFile[k].id)], a)].chr]
    /\ pc' = "ratio"
    /\ numpatient' = 1
    /\ UNCHANGED << error, exitStatus, inputVars, envVars, rawDataXls,
                    nSamples, matrixVars, ampVars, geneVars >>

\* The records taken from the panel's last amplicon to its first.
ampRecordsReversed(ratio) ==
    LET n == Len(listeOrdonneeAmpli)
    IN  [k \in DOMAIN listeOrdonneeAmpli |->
            [chr |-> dictChromosome[listeOrdonneeAmpli[n + 1 - k]],
             id |-> listeOrdonneeAmpli[n + 1 - k],
             ratio |-> ratio[listeOrdonneeAmpli[n + 1 - k]],
             x |-> k]]

\* The records of the ordered amplicons of one sample.
ampRecords(ratio) ==
    [k \in DOMAIN listeOrdonneeAmpli |->
        [chr |-> dictChromosome[listeOrdonneeAmpli[k]],
         id |-> listeOrdonneeAmpli[k],
         ratio |-> ratio[listeOrdonneeAmpli[k]],
         x |-> k]]

\* The column of the ratio sheet written for one sample.
sheetColumn(name, ratio) ==
    LET recs == ampRecords(ratio)
    IN  [name |-> name,
         cells |-> [k \in DOMAIN recs |->
                      [chr |-> recs[k].chr, id |-> recs[k].id, ratio |-> recs[k].ratio,
                       format |-> classify(recs[k].ratio, deletion_threshold,
                                           duplication_threshold)]]]

line(kind, name, r) == [kind |-> kind, sample |-> name, chr |-> r.chr, id |-> r.id, ratio |-> r.ratio]
mark(kind, name) == [kind |-> kind, sample |-> name]
lines(kind, name, recs) == [k \in DOMAIN recs |-> line(kind, name, recs[k])]

\* The block with the duplication lines written first.
ampBlockDuplicationsFirst(name, ratio) ==
    << mark("header", name) >>
    \o lines("Duplication", name,
             SelectSeq(ampRecords(ratio), LAMBDA r : r.ratio >= duplication_threshold))
    \o lines("Deletion", name,
             SelectSeq(ampRecords(ratio), LAMBDA r : r.ratio < deletion_threshold))
    \o << mark("end", name) >>

\* The block appended to the amplicon anomaly file for one sample.
ampBlock(name, ratio) ==
    << mark("header", name) >>
    \o lines("Deletion", name,
             SelectSeq(ampRecords(ratio), LAMBDA r : r.ratio < deletion_threshold))
    \o lines("Duplication", name,
             SelectSeq(ampRecords(ratio), LAMBDA r : r.ratio >= duplication_threshold))
    \o << mark("end", name) >>

\* The three point groups of the amplicon scatter plot of one sample.
ampPlot(name, ratio) ==
    [sample |-> name,
     Deletion |-> SelectSeq(ampRecords(ratio), LAMBDA r : r.ratio < deletion_threshold),
     Duplication |-> SelectSeq(ampRecords(ratio),
                       LAMBDA r : ~(r.ratio < deletion_threshold)
                                  /\ r.ratio >= duplication_threshold),
     Normal |-> SelectSeq(ampRecords(ratio),
                       LAMBDA r : ~(r.ratio < deletion_threshold)
                                  /\ ~(r.ratio >= duplication_threshold))]

\* One pass of the per-sample ratio loop: ratios, sheet column, anomaly
\* block, plot.  An exception of the ratio computation ends the run before
\* anything is written for the sample.
RatioSample ==
    /\ pc = "ratio"
    /\ numpatient <= nSamples
    /\ IF moy_Norm_dict_patient(filePatientALL, numpatient).raised
       THEN /\ Raise("ZeroDivisionError")
            /\ UNCHANGED << numpatient, ampVars >>
       ELSE IF dictRatioError(filePatientALL, dict_moy_Norm_TemoinsPorphy) # "none"
       THEN /\ Raise(dictRatioError(filePatientALL, dict_moy_Norm_TemoinsPorphy))
            /\ UNCHANGED << numpatient, ampVars >>
       ELSE LET ratio == dictRatioOf(filePatientALL, numpatient, dict_moy_Norm_TemoinsPorphy)
            IN  /\ worksheet' = Append(worksheet, sheetColumn(numpatient, ratio))
                /\ ampAnomalies' = ampAnomalies \o ampBlock(numpatient, ratio)
                /\ ampPlots' = Append(ampPlots, ampPlot(numpatient, ratio))
                /\ numpatient' = numpatient + 1
                /\ UNCHANGED << pc, error, exitStatus, ratioWorkbook >>
    /\ UNCHANGED << inputVars, envVars, rawDataXls, nSamples, matrixVars,
                    refVars, geneVars >>

\* ---------------------------------------------------------- gene aggregator
\* The orders in which a set can be iterated.
Orders(S) ==
    { f \in [1..Cardinality(S) -> S] : \A i, j \in DOMAIN f : f[i] = f[j] => i = j }

\* The gene names the gene file may list for a panel: the genes of its rows,
\* alone or with one gene that no amplicon carries.
GeneFiles(p) ==
    LET genes == { p[k].gene : k \in DOMAIN p }
    IN  { genes, genes \cup {G3} }

\* workbook.close(): the ratio sheet is saved and read back; the gene names
\* are read into a set.
StartGenes ==
    /\ pc = "ratio"
    /\ numpatient > nSamples
    /\ ratioWorkbook' =
          [ exists |-> TRUE,
            rows |-> IF worksheet = << >> THEN << >>
                     ELSE [k \in DOMAIN listeOrdonneeAmpli |->
                             [chr |-> worksheet[Len(worksheet)].cells[k].chr,
                              id |-> worksheet[Len(worksheet)].cells[k].id]],
            cols |-> worksheet ]
    /\ \E file \in GeneFiles(panelFile) :
          \E order \in Orders({ replaceDotZero(g) : g \in file }) :
              listeNomGene' = order
    /\ pc' = "gene"
    /\ numpatient' = 1
    /\ UNCHANGED << error, exitStatus, inputVars, envVars, rawDataXls,
                    nSamples, matrixVars, refVars, worksheet,
                    ampAnomalies, ampPlots, worksheet_rg, geneWorkbook,
                    geneAnomalies, genePlots >>

\* The rows of the saved ratio sheet whose amplicon id contains the gene name.
geneRows(book, gene) ==
    { k \in DOMAIN book.rows : found(replaceDotZero(book.rows[k].id), gene) }

RECURSIVE sumRows(_, _)
sumRows(col, rows) ==
    IF rows = {} THEN 0
    ELSE LET k == CHOOSE x \in rows : TRUE
         IN  col.cells[k].ratio + sumRows(col, rows \ {k})

\* numpy.mean of the ratios of the gene's rows: the fraction sum / n, NaN
\* (n = 0) when no row matches.
meanRatio(book, numPat, gene) ==
    [sum |-> sumRows(book.cols[numPat], geneRows(book, gene)),
     n |-> Cardinality(geneRows(book, gene))]

\* dictRatioParGene of one sample.
dictRatioParGeneOf(book, numPat) ==
    [g \in Range(listeNomGene) |-> meanRatio(book, numPat, g)]

\* dictChromoso of one sample: the chromosome of the gene's last row.
dictChromosoOf(book) ==
    [g \in { x \in Range(listeNomGene) : geneRows(book, x) # {} } |->
        book.rows[CHOOSE k \in geneRows(book, g) :
                     \A j \in geneRows(book, g) : j <= k].chr]

\* mean < t and mean >= t on floats: both are false for NaN.
lessThan(m, t) == m.n > 0 /\ m.sum < t * m.n
atLeast(m, t) == m.n > 0 /\ m.sum >= t * m.n
greaterThan(m, t) == m.n > 0 /\ m.sum > t * m.n

\* The three-way rule on a gene mean, for a gene that is not suppressed.
geneFormatSansSuppression(m, gene, d, u) ==
    IF lessThan(m, d) THEN "Deletion"
    ELSE IF atLeast(m, u) THEN "Duplication"
    ELSE "Normal"

\* The three-way rule of the gene sheet, with the identity markers left plain.
geneFormat(m, gene, d, u) ==
    IF lessThan(m, d) /\ gene \notin listeGeneNonInterets THEN "Deletion"
    ELSE IF atLeast(m, u) /\ gene \notin listeGeneNonInterets THEN "Duplication"
    ELSE "Normal"

\* The group of a gene in the gene scatter plot, "none" when it is in none.
genePlotGroup(m, gene, d, u) ==
    IF lessThan(m, d) /\ gene \notin listeGeneNonInterets THEN "Deletion"
    ELSE IF atLeast(m, u) /\ gene \notin listeGeneNonInterets THEN "Duplication"
    ELSE IF greaterThan(m, d) /\ lessThan(m, u) /\ gene \notin listeGeneNonInterets
         THEN "Normal"
    ELSE "none"

\* The gene records of one sample in iteration order; chr is "?" where
\* dictChromoso has no entry (reading it raises KeyError).
geneRecords(book, numPat) ==
    LET chromoso == dictChromosoOf(book)
        means == dictRatioParGeneOf(book, numPat)
    IN  [k \in DOMAIN listeNomGene |->
            [chr |-> IF listeNomGene[k] \in DOMAIN chromoso
                     THEN chromoso[listeNomGene[k]] ELSE "?",
             id |-> listeNomGene[k],
             ratio |-> means[listeNomGene[k]],
             x |-> k]]

\* What the gene anomaly file receives for one sample before the sheet rows
\* are written: the header, the deletion lines, the duplication lines.
geneBlockHead(name, recs) ==
    << mark("header", name) >>
    \o lines("Deletion", name,
             SelectSeq(recs, LAMBDA r : lessThan(r.ratio, deletion_threshold)
                                        /\ r.id \notin listeGeneNonInterets))
    \o lines("Duplication", name,
             SelectSeq(recs, LAMBDA r : atLeast(r.ratio, duplication_threshold)
                                        /\ r.id \notin listeGeneNonInterets))

\* The column of the gene sheet written for one sample.
geneColumn(name, recs) ==
    [name |-> name,
     cells |-> [k \in DOMAIN recs |->
                  [chr |-> recs[k].chr, id |-> recs[k].id, ratio |-> recs[k].ratio,
                   format |-> geneFormat(recs[k].ratio, recs[k].id,
                                         deletion_threshold, duplication_threshold)]]]

\* The three point groups of the gene scatter plot of one sample.
genePlot(name, recs) ==
    LET in(group) == SelectSeq(recs, LAMBDA r :
                        genePlotGroup(r.ratio, r.id, deletion_threshold,
                                      duplication_threshold) = group)
    IN  [sample |-> name, Deletion |-> in("Deletion"),
         Duplication |-> in("Duplication"), Normal |-> in("Normal")]

\* One pass of the per-sample gene loop.  The means are computed (NaN for a
\* gene without rows), the anomaly file is opened for appending and receives
\* the header and the anomaly lines; writing the sheet row of a gene without
\* rows then raises KeyError on dictChromoso, the file keeping what it got.
GeneSample ==
    /\ pc = "gene"
    /\ numpatient <= nSamples
    /\ LET recs == geneRecords(ratioWorkbook, numpatient)
       IN  IF \E k \in DOMAIN recs : recs[k].ratio.n = 0
           THEN /\ geneAnomalies' = geneAnomalies \o geneBlockHead(numpatient, recs)
                /\ Raise("KeyError")
                /\ UNCHANGED << numpatient, worksheet_rg, genePlots >>
           ELSE /\ geneAnomalies' = geneAnomalies \o geneBlockHead(numpatient, recs)
                                      \o << mark("end", numpatient) >>
                /\ worksheet_rg' = Append(worksheet_rg, geneColumn(numpatient, recs))
                /\ genePlots' = Append(genePlots, genePlot(numpatient, recs))
                /\ numpatient' = numpatient + 1
                /\ UNCHANGED << pc, error, exitStatus >>
    /\ UNCHANGED << inputVars, envVars, rawDataXls, nSamples, matrixVars,
                    refVars, ampVars,
                    listeNomGene, geneWorkbook >>

\* workbook_RG.close(): the gene sheet is saved, cnv_script_karim returns and
\* main returns 0 to sys.exit.
CloseGenes ==
    /\ pc = "gene"
    /\ numpatient > nSamples
    /\ geneWorkbook' = [exists |-> TRUE, cols |-> worksheet_rg]
    /\ pc' = "done"
    /\ exitStatus' = 0
    /\ UNCHANGED << error, inputVars, envVars, rawDataXls, nSamples,
                    numpatient, matrixVars, refVars,
                    ampVars, listeNomGene, worksheet_rg, geneAnomalies, genePlots >>

Next ==
    \/ Extract
    \/ LoadPanel
    \/ BuildMatrix
    \/ CloseMatrix
    \/ LoadBaseline
    \/ RatioSample
    \/ StartGenes
    \/ GeneSample
    \/ CloseGenes

Spec == Init /\ [][Next]_vars

\* The program is started again with the same arguments, working directory
\* included, after a run has ended: what the run held in memory is gone,
\* what it left in the working directory is still there.
Rerun ==
    /\ pc \in {"done", "failed"}
    /\ runs < MaxRuns
    /\ runs' = runs + 1
    /\ pc' = "start"
    /\ error' = "none"
    /\ exitStatus' = -1
    /\ nSamples' = 0
    /\ numpatient' = 1
    /\ coverage' = << >>
    /\ listOrdonneeAMP' = << >>
    /\ dictAmpliGene' = EmptyFun
    /\ worksheetEntreCNV' = << >>
    /\ dict_moy_Norm_TemoinsPorphy' = EmptyFun
    /\ listeOrdonneeAmpli' = << >>
    /\ dictChromosome' = EmptyFun
    /\ worksheet' = << >>
    /\ listeNomGene' = << >>
    /\ worksheet_rg' = << >>
    /\ UNCHANGED << inputVars, panelFile, rawDataXls, filePatientALL, ratioWorkbook,
                    ampAnomalies, ampPlots, geneWorkbook, geneAnomalies, genePlots,
                    guiVars >>

NextRerun ==
    \/ Next
    \/ Rerun

\* Runs one after the other in one working directory.
SpecRerun == Init /\ [][NextRerun]_vars

\* ------------------------------------------------------------- main window
\* MainWindow.__init__ after load_user_prefs: the directories and the last
\* archive are set if the preferences hold them; one QProcess, not started,
\* with nothing connected to its finished signal; setup_normal_mode.  No
\* run of cnv_script_karim takes place in the window's own process.
InitGui ==
    /\ EnterScript({PanelWorked}, {<<500, 1760>>})
    /\ refdir \in BOOLEAN
    /\ workdir \in BOOLEAN
    /\ last_zip \in BOOLEAN
    /\ arguments = NoArguments
    /\ processState = "NotRunning"
    /\ starts = 0
    /\ connections = 0
    /\ slotCalls = 0
    /\ messageBox = "none"
    /\ runButtonHidden = FALSE
    /\ windowOpen = TRUE

\* The menu entry: the directory is kept if the dialog returned one.
select_refdir ==
    /\ windowOpen
    /\ \E chosen \in BOOLEAN :
          /\ refdir' = (refdir \/ chosen)
          /\ messageBox' = IF chosen THEN messageBox ELSE "Erreur"
    /\ UNCHANGED << runVars, workdir, last_zip, arguments, processState, starts,
                    connections, slotCalls, runButtonHidden, windowOpen >>

select_workdir ==
    /\ windowOpen
    /\ \E chosen \in BOOLEAN :
          /\ workdir' = (workdir \/ chosen)
          /\ messageBox' = IF chosen THEN messageBox ELSE "Erreur"
    /\ UNCHANGED << runVars, refdir, last_zip, arguments, processState, starts,
                    connections, slotCalls, runButtonHidden, windowOpen >>

\* The click on the run button (a hidden button cannot be clicked).  The
\* dialogs answer: a directory for each directory not yet set, an existing
\* archive, a run name, and QProcess reports whether the process started.
run_script ==
    /\ windowOpen
    /\ ~runButtonHidden
    /\ starts < MaxStarts
    /\ \E refChosen, workChosen, zipChosen, nameGiven, started \in BOOLEAN :
          LET ref == refdir \/ refChosen
              work == workdir \/ workChosen
          IN  IF processState = "Running"
              THEN /\ messageBox' = "What?"
                   /\ UNCHANGED << refdir, workdir, last_zip, arguments,
                                   processState, starts, connections,
                                   runButtonHidden >>
              ELSE /\ refdir' = ref
                   /\ workdir' = work
                   /\ IF ~ref \/ ~work
                      THEN /\ messageBox' = "Erreur"
                           /\ UNCHANGED << last_zip, arguments, processState, starts,
                                           connections, runButtonHidden >>
                      ELSE IF ~zipChosen
                      THEN UNCHANGED << messageBox, last_zip, arguments, processState,
                                        starts, connections, runButtonHidden >>
                      ELSE IF ~nameGiven
                      THEN /\ last_zip' = TRUE
                           /\ UNCHANGED << messageBox, arguments, processState, starts,
                                           connections, runButtonHidden >>
                      ELSE /\ last_zip' = TRUE
                           /\ arguments' = [refdir |-> ref, workdir |-> work,
                                            input_zip |-> zipChosen,
                                            run_name |-> nameGiven]
                           /\ starts' = starts + 1
                           /\ IF started
                              THEN /\ processState' = "Running"
                                   /\ runButtonHidden' = TRUE
                                   /\ connections' = connections + 1
                                   /\ messageBox' = "Running script"
                              ELSE /\ messageBox' = "Erreur"
                                   /\ UNCHANGED << processState, runButtonHidden,
                                                   connections >>
    /\ UNCHANGED << runVars, slotCalls, windowOpen >>

\* One call of the slot: a message box, then setup_normal_mode.
on_worker_finished(returncode) ==
    /\ messageBox' = IF returncode # 0 THEN "Erreur" ELSE "Succès !"
    /\ runButtonHidden' = FALSE

\* The process has ended and QProcess emits finished: the slot is called
\* once for each connection made to the signal.
emitFinished(returncode) ==
    /\ processState' = "NotRunning"
    /\ slotCalls' = connections
    /\ IF connections > 0
       THEN on_worker_finished(returncode)
       ELSE UNCHANGED << messageBox, runButtonHidden >>

\* The worker process exits by itself, with the exit status of its run.
finished ==
    /\ windowOpen
    /\ processState = "Running"
    /\ \E returncode \in {0, 1} : emitFinished(returncode)
    /\ UNCHANGED << runVars, refdir, workdir, last_zip, arguments, starts,
                    connections, windowOpen >>

\* The window is closed whatever the process does.
closeEventAcceptsAlways ==
    /\ windowOpen
    /\ windowOpen' = FALSE
    /\ UNCHANGED << runVars, refdir, workdir, last_zip, arguments, processState,
                    starts, connections, slotCalls, messageBox, runButtonHidden >>

\* The window is asked to close.  With a running process the user is asked:
\* Yes kills the process, waits for it (finished is emitted) and closes; No
\* keeps the window.  Without one the window closes.
closeEvent ==
    /\ windowOpen
    /\ IF processState = "Running"
       THEN \E yes \in BOOLEAN :
               IF yes
               THEN /\ emitFinished(1)
                    /\ windowOpen' = FALSE
               ELSE /\ messageBox' = "Arrêter le script ?"
                    /\ UNCHANGED << processState, slotCalls, runButtonHidden,
                                    windowOpen >>
       ELSE /\ windowOpen' = FALSE
            /\ UNCHANGED << processState, slotCalls, messageBox, runButtonHidden >>
    /\ UNCHANGED << runVars, refdir, workdir, last_zip, arguments, starts,
                    connections >>

NextGui ==
    \/ select_refdir
    \/ select_workdir
    \/ run_script
    \/ finished
    \/ closeEvent

SpecGui == InitGui /\ [][NextGui]_vars

\* The runs over the panel with an identity marker.
InitMarker ==
    /\ EnterScript({PanelMarker}, ThresholdPairs)
    /\ NoWindow

SpecMarker == InitMarker /\ [][Next]_vars

\* The runs over the panel whose ids hold ".0".
InitKeys ==
    /\ EnterScript({PanelDots}, ThresholdPairs)
    /\ NoWindow

SpecKeys == InitKeys /\ [][Next]_vars

\* ================================================================== claims
\* Every cell of the ratio sheet written so far, with its sample.
sheetCells ==
    { [s |-> s, k |-> k, cell |-> worksheet[s].cells[k]] :
        s \in DOMAIN worksheet, k \in 1..Len(listeOrdonneeAmpli) }

\* C1: with deletion_threshold < duplication_threshold, a ratio cell is
\* written as Deletion exactly when its ratio is below the deletion
\* threshold, as Duplication exactly when it is at or above the duplication
\* threshold, and as Normal otherwise.
C1_ClassificationRule ==
    deletion_threshold < duplication_threshold =>
        \A c \in sheetCells :
            /\ (c.cell.format = "Deletion") <=> (c.cell.ratio < deletion_threshold)
            /\ (c.cell.format = "Duplication") <=> (c.cell.ratio >= duplication_threshold)
            /\ (c.cell.format = "Normal") <=>
                  (c.cell.ratio >= deletion_threshold /\ c.cell.ratio < duplication_threshold)

\* A sheet holding a ratio equal to the deletion threshold, written Normal,
\* and a ratio equal to the duplication threshold, written Duplication.
C1_Witness ==
    /\ deletion_threshold < duplication_threshold
    /\ \E c \in sheetCells :
          c.cell.ratio = deletion_threshold /\ c.cell.format = "Normal"
    /\ \E c \in sheetCells :
          c.cell.ratio = duplication_threshold /\ c.cell.format = "Duplication"

\* The raw count of sample s for the k-th panel amplicon, from the sample file.
rawCount(s, k) == coverage[s][listOrdonneeAMP[k]]

RECURSIVE sampleTotal(_, _)
\* The sum of the raw counts of sample s over the first k panel amplicons.
sampleTotal(s, k) == IF k = 0 THEN 0 ELSE rawCount(s, k) + sampleTotal(s, k - 1)

Abs(x) == IF x < 0 THEN -x ELSE x

\* r is num / den rounded to the nearest integer, a tie to the even one.
IsRounded(r, num, den) ==
    /\ den # 0
    /\ 2 * Abs(r * den - num) <= Abs(den)
    /\ (2 * Abs(r * den - num) = Abs(den) => r % 2 = 0)

\* C2: the ratio written for sample s and the k-th panel amplicon is
\* (raw / (total - raw)) / baseline rounded to three decimals, total being
\* the sum of the sample's raw counts over the whole panel.
C2_RatioFormula ==
    \A c \in sheetCells :
        LET total == sampleTotal(c.s, Len(listOrdonneeAMP))
            raw == rawCount(c.s, c.k)
        IN  /\ c.cell.id = listOrdonneeAMP[c.k]
            /\ IsRounded(c.cell.ratio, raw * 1000000,
                         (total - raw) * dict_moy_Norm_TemoinsPorphy[c.cell.id])

\* Two samples with different totals in one sheet, one of them the sample of
\* the worked scenario (10 and 30 reads, ratio 0.333 for the first amplicon).
C2_Witness ==
    /\ Len(worksheet) = 2
    /\ sampleTotal(1, Len(listOrdonneeAMP)) # sampleTotal(2, Len(listOrdonneeAMP))
    /\ \E c \in sheetCells :
          rawCount(c.s, c.k) = 10 /\ sampleTotal(c.s, 2) = 40 /\ c.cell.ratio = 333

\* The run ended in the per-sample ratio loop.
FailedInRatio == pc = "failed" /\ filePatientALL.exists /\ ~ratioWorkbook.exists
\* The run ended in the per-sample gene loop.
FailedInGenes == pc = "failed" /\ ratioWorkbook.exists

\* The inputs of the worked scenario, with sample s its sample.
WorkedInputs(s) ==
    /\ panelFile = PanelWorked
    /\ coverage[s] = [a \in {A1, A2} |-> IF a = A1 THEN 10 ELSE 30]
    /\ dict_moy_Norm_TemoinsPorphy = [a \in {A1, A2} |-> IF a = A1 THEN 1000 ELSE 2000]
    /\ deletion_threshold = 500
    /\ duplication_threshold = 1760

\* C3: a finished run of the worked scenario (one sample, gene list {G1})
\* has written ratio 0.333 as Deletion for A1, ratio 1.5 as Normal for A2,
\* and a gene record for G1 with aggregate 0.917 classified Normal.
C3_WorkedScenario ==
    ( /\ nSamples = 1
      /\ Len(coverage) = 1
      /\ WorkedInputs(1)
      /\ listeNomGene = << G1 >>
      /\ pc \in {"done", "failed"} )
    => /\ Len(worksheet) = 1
       /\ worksheet[1].cells[1].ratio = 333
       /\ worksheet[1].cells[1].format = "Deletion"
       /\ worksheet[1].cells[2].ratio = 1500
       /\ worksheet[1].cells[2].format = "Normal"
       /\ Len(worksheet_rg) = 1
       /\ \E k \in DOMAIN worksheet_rg[1].cells :
             LET cell == worksheet_rg[1].cells[k]
             IN  /\ cell.id = G1
                 /\ cell.ratio.n > 0
                 /\ cell.ratio.sum = 917 * cell.ratio.n
                 /\ cell.format = "Normal"

\* The panel rows that the explicit mapping dictAmpliGene assigns to a gene.
mappedRows(gene) ==
    { k \in DOMAIN listeOrdonneeAmpli : dictAmpliGene[listeOrdonneeAmpli[k]] = gene }

RECURSIVE sumRatios(_, _)
\* The sum of the ratios that sample s has in the given rows of the ratio sheet.
sumRatios(s, rows) ==
    IF rows = {} THEN 0
    ELSE LET k == CHOOSE x \in rows : TRUE
         IN  worksheet[s].cells[k].ratio + sumRatios(s, rows \ {k})

\* C4: every gene ratio written is the mean of the ratios of exactly the
\* amplicons that the panel's gene mapping assigns to the gene.
C4_ExactGeneMembership ==
    \A s \in DOMAIN worksheet_rg : \A k \in DOMAIN worksheet_rg[s].cells :
        LET cell == worksheet_rg[s].cells[k]
        IN  /\ cell.ratio.n = Cardinality(mappedRows(cell.id))
            /\ cell.ratio.sum = sumRatios(s, mappedRows(cell.id))

\* Sample s, whose matrix column is built, has an amplicon whose count
\* equals the sample total minus itself... total - raw = 0.
zeroDenominator(s) ==
    \E k \in 1..Len(listOrdonneeAMP) :
        sampleTotal(s, Len(listOrdonneeAMP)) - rawCount(s, k) = 0

\* No output holds anything for sample s.
NoOutputFor(s) ==
    /\ \A i \in DOMAIN worksheet : worksheet[i].name # s
    /\ \A i \in DOMAIN ampAnomalies : ampAnomalies[i].sample # s
    /\ \A i \in DOMAIN ampPlots : ampPlots[i].sample # s
    /\ \A i \in DOMAIN worksheet_rg : worksheet_rg[i].name # s
    /\ \A i \in DOMAIN geneAnomalies : geneAnomalies[i].sample # s
    /\ \A i \in DOMAIN genePlots : genePlots[i].sample # s
    /\ ratioWorkbook.exists =>
          \A i \in DOMAIN ratioWorkbook.cols : ratioWorkbook.cols[i].name # s
    /\ geneWorkbook.exists =>
          \A i \in DOMAIN geneWorkbook.cols : geneWorkbook.cols[i].name # s

\* C5: a sample with an amplicon whose denominator total - raw is 0 never
\* gets past the ratio computation (the run ends there with
\* ZeroDivisionError), and no sheet cell, anomaly line or plot exists for it.
C5_ZeroDenominatorFails ==
    \A s \in DOMAIN worksheetEntreCNV :
        zeroDenominator(s) =>
            /\ NoOutputFor(s)
            /\ pc \notin {"gene", "done"}
            /\ (pc = "ratio" => numpatient <= s)
            /\ (FailedInRatio /\ numpatient = s => error = "ZeroDivisionError")

\* The run has ended with ZeroDivisionError at its second sample, whose
\* denominator is 0 for some amplicon, after the first sample was reported.
C5_Witness ==
    /\ FailedInRatio
    /\ error = "ZeroDivisionError"
    /\ numpatient = 2
    /\ zeroDenominator(2)
    /\ \E i \in DOMAIN ampAnomalies : ampAnomalies[i].sample = 1
    /\ NoOutputFor(2)

\* Every panel amplicon has a baseline above 0.
BaselineValid ==
    \A k \in DOMAIN listeOrdonneeAmpli :
        /\ listeOrdonneeAmpli[k] \in DOMAIN dict_moy_Norm_TemoinsPorphy
        /\ dict_moy_Norm_TemoinsPorphy[listeOrdonneeAmpli[k]] > 0

\* C6: a baseline that is missing, 0 or negative for a panel amplicon is
\* rejected when it is loaded: the ratio loop never has a sample to compute
\* while the baseline is defective.
C6_BaselineRejectedAtLoad ==
    (pc = "ratio" /\ numpatient <= nSamples) => BaselineValid

\* C7: a gene of the gene list without mapped amplicon is an error of the
\* aggregation: with such a gene in the list, nothing is classified or
\* reported for any gene.
C7_EmptyGeneIsError ==
    (\E k \in DOMAIN listeNomGene : mappedRows(listeNomGene[k]) = {})
    => /\ geneAnomalies = << >>
       /\ worksheet_rg = << >>
       /\ genePlots = << >>

\* Every block of an anomaly file that was begun is ended.
BlocksComplete(f) ==
    \A i \in DOMAIN f :
        f[i].kind = "header" =>
            \E j \in DOMAIN f : j > i /\ f[j].kind = "end" /\ f[j].sample = f[i].sample

\* C8: when the run has failed, no anomaly file holds a partial or
\* header-only block.
C8_NoPartialRecord ==
    pc = "failed" => BlocksComplete(ampAnomalies) /\ BlocksComplete(geneAnomalies)

\* C9: wherever amplicons have been classified, deletion_threshold <
\* duplication_threshold.
C9_ThresholdsOrdered ==
    (worksheet # << >> \/ ampAnomalies # << >>)
    => deletion_threshold < duplication_threshold

\* C10: every sample for which ratios were computed provides a non-negative
\* read count for every panel amplicon.
C10_CoverageValidated ==
    \A s \in DOMAIN worksheet : \A k \in DOMAIN listOrdonneeAMP :
        /\ listOrdonneeAMP[k] \in DOMAIN coverage[s]
        /\ coverage[s][listOrdonneeAMP[k]] >= 0

\* The cells of the gene sheet in memory: sample s, row k.
geneCells ==
    { [s |-> s, k |-> k, cell |-> worksheet_rg[s].cells[k]] :
        s \in DOMAIN worksheet_rg, k \in DOMAIN listeNomGene }

\* The lines of the gene anomaly file that name a gene.
geneLines ==
    { geneAnomalies[i] : i \in { j \in DOMAIN geneAnomalies :
                                    geneAnomalies[j].kind \in {"Deletion", "Duplication"} } }

\* The mean of the ratios of a sample's rows whose amplicon id contains the
\* gene name, whatever the gene: sum and number of rows.
containingRows(gene) ==
    { k \in DOMAIN listeOrdonneeAmpli : found(listeOrdonneeAmpli[k], gene) }

\* C11, as the code has it: an identity marker keeps its place and its
\* numeric ratio in the gene sheet (the mean of the ratios of its rows,
\* computed as for any other gene) and never appears in the gene anomaly
\* file; its cell is written without a deletion or duplication format
\* whatever the ratio.
C11_MarkerKeepsRatioOnly ==
    /\ \A c \in geneCells :
          /\ c.cell.id = listeNomGene[c.k]
          /\ c.cell.ratio.n = Cardinality(containingRows(c.cell.id))
          /\ c.cell.ratio.sum = sumRatios(c.s, containingRows(c.cell.id))
          /\ c.cell.id \in listeGeneNonInterets => c.cell.format = "Normal"
    /\ \A l \in geneLines : l.id \notin listeGeneNonInterets

\* A marker whose mean is below the deletion threshold is in the gene sheet,
\* beside a gene that is reported as a deletion.
C11_Witness ==
    /\ \E c \in geneCells :
          /\ c.cell.id = TH01
          /\ lessThan(c.cell.ratio, deletion_threshold)
    /\ \E l \in geneLines : l.kind = "Deletion"

\* C11, as the claim has it: the classification written in the gene sheet for
\* an identity marker is the one a gene that is not suppressed gets for the
\* same ratio.
C11_SameClassification ==
    \A c \in geneCells :
        c.cell.format = geneFormatSansSuppression(c.cell.ratio, c.cell.id,
                            deletion_threshold, duplication_threshold)

\* The positions of the amplicon anomaly file that hold an anomaly line of
\* sample s.
ampLinesOf(s) ==
    { i \in DOMAIN ampAnomalies :
        /\ ampAnomalies[i].sample = s
        /\ ampAnomalies[i].kind \in {"Deletion", "Duplication"} }

\* The place of an amplicon id in the ordered panel.
panelIndex(id) == CHOOSE k \in DOMAIN listeOrdonneeAmpli : listeOrdonneeAmpli[k] = id

\* C12: in the block of each sample of the amplicon anomaly file the lines
\* stand between the header and the end mark, every deletion line comes
\* before every duplication line, the lines of a group follow the panel
\* order, and the block lists exactly the amplicons with ratio below the
\* deletion threshold (as deletions) and those with ratio at or above the
\* duplication threshold (as duplications), each with its ratio.
C12_AnomalyBlockOrder ==
    \A s \in DOMAIN worksheet :
        LET block == ampLinesOf(s)
            cells == worksheet[s].cells
        IN  /\ \E h, e \in DOMAIN ampAnomalies :
                  /\ ampAnomalies[h] = mark("header", s)
                  /\ ampAnomalies[e] = mark("end", s)
                  /\ block = (h + 1)..(e - 1)
            /\ \A i, j \in block :
                  i < j =>
                    /\ ~(ampAnomalies[i].kind = "Duplication"
                          /\ ampAnomalies[j].kind = "Deletion")
                    /\ ampAnomalies[i].kind = ampAnomalies[j].kind
                          => panelIndex(ampAnomalies[i].id)
                               < panelIndex(ampAnomalies[j].id)
            /\ \A i \in block :
                  /\ ampAnomalies[i].id \in Range(listeOrdonneeAmpli)
                  /\ ampAnomalies[i].ratio
                        = cells[panelIndex(ampAnomalies[i].id)].ratio
            /\ \A k \in DOMAIN listeOrdonneeAmpli :
                  LET listed(kind) == \E i \in block :
                                         /\ ampAnomalies[i].kind = kind
                                         /\ ampAnomalies[i].id = listeOrdonneeAmpli[k]
                  IN  /\ listed("Deletion") <=> cells[k].ratio < deletion_threshold
                      /\ listed("Duplication")
                            <=> cells[k].ratio >= duplication_threshold

\* A block in which the duplicated amplicon stands before the deleted one in
\* the panel, and a block with two lines of one group.
C12_Witness ==
    /\ \E s \in DOMAIN worksheet : \E i, j \in ampLinesOf(s) :
          /\ ampAnomalies[i].kind = "Deletion"
          /\ ampAnomalies[j].kind = "Duplication"
          /\ panelIndex(ampAnomalies[j].id) < panelIndex(ampAnomalies[i].id)
    /\ \E s \in DOMAIN worksheet : \E i, j \in ampLinesOf(s) :
          i # j /\ ampAnomalies[i].kind = ampAnomalies[j].kind

\* C13: in every sample column of the ratio sheet, in memory and as saved,
\* row k is the k-th amplicon of the ordered panel: its id, its chromosome
\* and the ratio computed from its own count and its own baseline.
C13_PanelOrder ==
    /\ \A s \in DOMAIN worksheet :
          LET cells == worksheet[s].cells
              total == sampleTotal(s, Len(panelFile))
          IN  /\ DOMAIN cells = DOMAIN panelFile
              /\ \A k \in DOMAIN panelFile :
                    LET id == replaceDotZero(panelFile[k].id)
                        raw == rawCount(s, k)
                    IN  /\ cells[k].id = id
                        /\ cells[k].chr = panelFile[k].chr
                        /\ IsRounded(cells[k].ratio, raw * 1000000,
                                     (total - raw) * dict_moy_Norm_TemoinsPorphy[id])
    /\ ratioWorkbook.exists =>
          /\ ratioWorkbook.cols = worksheet
          /\ worksheet # << >> =>
                /\ DOMAIN ratioWorkbook.rows = DOMAIN panelFile
                /\ \A k \in DOMAIN panelFile :
                      /\ ratioWorkbook.rows[k].id = replaceDotZero(panelFile[k].id)
                      /\ ratioWorkbook.rows[k].chr = panelFile[k].chr

\* Two sample columns are saved over a panel whose rows differ in
\* chromosome, and the rows of a column differ in ratio.
C13_Witness ==
    /\ ratioWorkbook.exists
    /\ Len(worksheet) = 2
    /\ panelFile[1].chr # panelFile[2].chr
    /\ worksheet[1].cells[1].ratio # worksheet[1].cells[2].ratio
    /\ worksheet[2].cells[1].ratio # worksheet[2].cells[2].ratio

\* The text without its final ".0", if it ends in one.
stripTrailingDotZero(t) ==
    IF Len(t) >= 2 /\ t[Len(t) - 1] = "." /\ t[Len(t)] = "0"
    THEN SubSeq(t, 1, Len(t) - 2)
    ELSE t

\* C14: the key of every panel amplicon is its id without a final ".0" and
\* otherwise unchanged, and the baseline and the sample columns are looked
\* up under that key.
C14_TrailingDotZeroOnly ==
    /\ \A k \in DOMAIN listOrdonneeAMP :
          listOrdonneeAMP[k] = stripTrailingDotZero(panelFile[k].id)
    /\ DOMAIN dict_moy_Norm_TemoinsPorphy
          \subseteq { stripTrailingDotZero(panelFile[k].id) : k \in DOMAIN panelFile }
    /\ \A s \in DOMAIN worksheetEntreCNV : \A k \in DOMAIN panelFile :
          worksheetEntreCNV[s][k] = coverage[s][stripTrailingDotZero(panelFile[k].id)]

\* How many entries of the sequence q satisfy Test.
Count(q, Test(_)) == Cardinality({ i \in DOMAIN q : Test(q[i]) })

\* Sample s went through every stage exactly once: one column in the
\* coverage matrix, the ratio sheet and the gene sheet, one block in each
\* anomaly file, one plot of each kind.
ProcessedOnce(s) ==
    /\ filePatientALL.exists /\ s \in DOMAIN filePatientALL.cols
    /\ ratioWorkbook.exists
    /\ Count(ratioWorkbook.cols, LAMBDA c : c.name = s) = 1
    /\ Count(ampAnomalies, LAMBDA l : l = mark("header", s)) = 1
    /\ Count(ampAnomalies, LAMBDA l : l = mark("end", s)) = 1
    /\ Count(ampPlots, LAMBDA g : g.sample = s) = 1
    /\ geneWorkbook.exists
    /\ Count(geneWorkbook.cols, LAMBDA c : c.name = s) = 1
    /\ Count(geneAnomalies, LAMBDA l : l = mark("header", s)) = 1
    /\ Count(geneAnomalies, LAMBDA l : l = mark("end", s)) = 1
    /\ Count(genePlots, LAMBDA g : g.sample = s) = 1

\* C15: a run that an exception ended has a non-zero exit status, and a run
\* with exit status 0 raised nothing and took each of its samples through
\* every stage exactly once, with no column for anything else.
C15_ExitStatus ==
    /\ (pc = "failed" \/ error # "none") => exitStatus > 0
    /\ exitStatus = 0 =>
          /\ pc = "done" /\ error = "none"
          /\ \A s \in 1..nSamples : ProcessedOnce(s)
          /\ Len(filePatientALL.cols) = nSamples
          /\ Len(ratioWorkbook.cols) = nSamples
          /\ Len(geneWorkbook.cols) = nSamples

\* A run over two samples ended with exit status 0.
C15_Witness == exitStatus = 0 /\ nSamples = 2

\* The sample names that occur in a report file or a sheet.
namesIn(q) == { q[i].sample : i \in DOMAIN q }

\* The amplicon anomaly file and the amplicon plots hold one block and one
\* plot for each sample the run in progress has written a ratio column for,
\* and nothing else.
FreshOutputs ==
    /\ \A s \in namesIn(ampAnomalies) \cup namesIn(ampPlots) \cup DOMAIN worksheet :
          /\ s \in DOMAIN worksheet
          /\ Count(ampAnomalies, LAMBDA l : l = mark("header", s)) = 1
          /\ Count(ampPlots, LAMBDA g : g.sample = s) = 1
    /\ \A s \in namesIn(geneAnomalies) \cup namesIn(genePlots) :
          Count(geneAnomalies, LAMBDA l : l = mark("header", s)) = 1

\* C16: when the second run in a working directory has ended (its reference
\* files were found), the report files hold exactly one block per sample
\* that this run processed and nothing that the first run wrote.
C16_NothingCarriedOver ==
    (runs = 2 /\ pc \in {"done", "failed"} /\ error # "FileNotFoundError")
        => FreshOutputs

\* C17: whenever the worker process of the window completes,
\* on_worker_finished is called exactly once.
C17_FinishedOnce ==
    [][(processState = "Running" /\ processState' = "NotRunning")
          => slotCalls' = 1]_vars

\* Every part the arguments of _process are built from is set.
ArgumentsSet(a) == a.refdir /\ a.workdir /\ a.input_zip /\ a.run_name

\* C18: the run button is hidden exactly while the worker process runs
\* (from the successful start to on_worker_finished); a closed window leaves
\* no worker process running; a running process was started with the
\* reference directory, the working directory, the archive and the run name
\* all set; _process.start() is only called while no process is running, and
\* a process only comes to run by such a call.
C18_WindowSafety ==
    /\ [](runButtonHidden <=> processState = "Running")
    /\ [](~windowOpen => processState = "NotRunning")
    /\ [](processState = "Running" => ArgumentsSet(arguments) /\ refdir /\ workdir)
    /\ [][starts' # starts =>
            /\ processState = "NotRunning"
            /\ ArgumentsSet(arguments') /\ refdir' /\ workdir' /\ last_zip']_vars
    /\ [][(processState # "Running" /\ processState' = "Running")
            => starts' = starts + 1]_vars

\* A second worker process runs, the button hidden, after the first one has
\* ended and the button was shown again.
C18_Witness ==
    /\ windowOpen
    /\ starts >= 2
    /\ slotCalls >= 1
    /\ processState = "Running"
    /\ runButtonHidden

\* The groups of the plot of sample s that hold the point of row k.
groupsAt(plots, s, k) ==
    LET plot == CHOOSE g \in Range(plots) : g.sample = s
    IN  { group \in {"Deletion", "Duplication", "Normal"} :
            \E i \in DOMAIN plot[group] : plot[group][i].x = k }

\* The anomaly file lists the id under the kind in the block of sample s.
listedAs(file, s, kind, id) ==
    \E i \in DOMAIN file :
        /\ file[i].kind = kind
        /\ file[i].sample = s
        /\ file[i].id = id

\* The three report sites agree on the group of one sheet cell.
sameGroup(cell, plots, file, s, k) ==
    /\ groupsAt(plots, s, k) = {cell.format}
    /\ listedAs(file, s, "Deletion", cell.id) <=> cell.format = "Deletion"
    /\ listedAs(file, s, "Duplication", cell.id) <=> cell.format = "Duplication"

\* C19: with ordered thresholds, every amplicon and every gene that is not
\* an identity marker is in exactly one group of the scatter plot, and that
\* group is the one its sheet cell is formatted as and the one, if an
\* anomaly, it is listed under in the anomaly text.
C19_SameGroupEverywhere ==
    deletion_threshold < duplication_threshold =>
        /\ \A c \in sheetCells :
              sameGroup(c.cell, ampPlots, ampAnomalies, c.s, c.k)
        /\ \A c \in geneCells :
              c.cell.id \notin listeGeneNonInterets
                => sameGroup(c.cell, genePlots, geneAnomalies, c.s, c.k)

\* The same for the amplicons alone.
AmpliconSitesAgree ==
    deletion_threshold < duplication_threshold =>
        \A c \in sheetCells : sameGroup(c.cell, ampPlots, ampAnomalies, c.s, c.k)
====
